---- MODULE Spec2Model ----
(***************************************************************************)
(* Model of the token lifecycle (TokenManager) and of the authenticated    *)
(* request client (getAccessToken, makeGraphRequest) of                    *)
(* microsoft-todo-mcp-server, src/src/todo-index.ts.                       *)
(*                                                                         *)
(* JavaScript runs one callback at a time: the code between two awaits is  *)
(* one atomic step.  A step of the model is such a stretch of code.  Two   *)
(* adjacent stretches are merged into one step only where the second reads *)
(* and writes nothing but locals of the call.                              *)
(***************************************************************************)
EXTENDS Integers, FiniteSets, Sequences, TLC

(***************************************************************************)
(* Bounds of the model.                                                    *)
(***************************************************************************)
MaxTicks == 1        \* clock advances
MaxIssued == 1       \* successful exchanges at the identity provider
MaxAuth == 1         \* runs of the external interactive auth flow
MaxOps == 2          \* operations started in one run
MaxHours == 1        \* times the clock advances by more than an hour
MaxRaceIssued == 2   \* successful exchanges when two refreshes race
MaxItems == 2        \* checklist items of the task move-task moves
MaxTasks == 2        \* completed tasks archive-completed-tasks finds
MaxToolOps == 1      \* move-task and archive-completed-tasks calls in one run

Callers == {"c1", "c2"}

(***************************************************************************)
(* Program constants.                                                      *)
(***************************************************************************)
EnvLifetimeMs == 3600000    \* 3600 * 1000, assumed lifetime of the env pair
SafetyMarginMs == 300000    \* 5 * 60 * 1000, the "5 min buffer"
MsPerSecond == 1000         \* expires_in is in seconds
Unauthorized == 401

(***************************************************************************)
(* The clock: Date.now() in milliseconds.  It starts at T0 and advances by *)
(* TickMs, so that a record can expire exactly at, before or after a call. *)
(***************************************************************************)
T0 == 2 * EnvLifetimeMs
TickMs == SafetyMarginMs
HourMs == EnvLifetimeMs + TickMs

(***************************************************************************)
(* JavaScript values.  A token record (TokenData / StoredTokenData) is a   *)
(* record over Fields; an optional field that is absent holds Undefined.   *)
(* The empty string is falsy like undefined and is not told apart from it. *)
(***************************************************************************)
Undefined == "undefined"
Null == [null |-> TRUE]
Fields == {"accessToken", "refreshToken", "expiresAt", "clientId", "clientSecret", "tenantId"}

Truthy(v) == v # Undefined

Or(a, b) == IF Truthy(a) THEN a ELSE b

TokenData(a, r, e) ==
  [accessToken |-> a, refreshToken |-> r, expiresAt |-> e,
   clientId |-> Undefined, clientSecret |-> Undefined, tenantId |-> Undefined]

StoredTokenData(a, r, e, ci, cs, t) ==
  [accessToken |-> a, refreshToken |-> r, expiresAt |-> e,
   clientId |-> ci, clientSecret |-> cs, tenantId |-> t]

(***************************************************************************)
(* Files.  A file is absent, holds text that JSON.parse rejects, or holds  *)
(* JSON text: the literal null or an object with the members that are      *)
(* written out.  JSON.stringify leaves out the members whose value is      *)
(* undefined and, as called here, indents by 2; JSON.parse gives a record  *)
(* in which the members that are not in the text are undefined.            *)
(***************************************************************************)
Absent == [kind |-> "absent"]
Corrupt == [kind |-> "corrupt"]

IsDefined(o, k) == IF k = "expiresAt" THEN TRUE ELSE o[k] # Undefined

Members(o, keys) == [k \in {f \in keys : IsDefined(o, f)} |-> o[k]]

JsonText(o, indent) ==
  [kind |-> "json", indent |-> indent, isNull |-> o = Null,
   members |-> IF o = Null THEN Members(o, {}) ELSE Members(o, Fields)]

StringifyDropsTenant(o) ==
  [kind |-> "json", indent |-> 2, isNull |-> o = Null,
   members |-> IF o = Null THEN Members(o, {}) ELSE Members(o, Fields \ {"tenantId"})]

JSONstringify(o) == JsonText(o, 2)

existsSync(file) == file.kind # "absent"

ParseThrows(file) == file.kind # "json"

JSONparse(file) ==
  IF file.isNull THEN Null
  ELSE [k \in Fields |-> IF k \in DOMAIN file.members THEN file.members[k] ELSE Undefined]

\* The file holds JSON text of a record.
IsRecordFile(file) == file.kind = "json" /\ ~file.isNull

(***************************************************************************)
(* State.                                                                  *)
(***************************************************************************)
VARIABLES
  clock,          \* Date.now()
  env,            \* process.env, fixed while the process runs
  canonFile,      \* <config dir>/microsoft-todo-mcp/tokens.json
  legacyFile,     \* <cwd>/tokens.json
  claudeConfig,   \* claude_desktop_config.json
  disk,           \* which of the files writeFileSync can write
  currentTokens,  \* TokenManager.currentTokens
  call,           \* per caller: the operation in progress, its locals, its record
  tokenReq,       \* per caller: the exchange in flight at the token endpoint
  issued,         \* token pairs the identity provider has issued
  lastIssued,     \* the refresh token the provider issued last
  prompted,       \* promptForReauth has printed its message
  auths,          \* runs of the external auth flow so far
  authWrote,      \* the record the auth flow wrote, while the file still holds it
  lastSaved,      \* the record saveTokens wrote, while the file still holds it
  lastGet,        \* outcome of the last getTokens call, while nothing changed since
  ops,            \* operations started so far
  active          \* the callers that issue operations in this run

vars == <<clock, env, canonFile, legacyFile, claudeConfig, disk, currentTokens, call,
          tokenReq, issued, lastIssued, prompted, auths, authWrote, lastSaved, lastGet,
          ops, active>>

(***************************************************************************)
(* Values of the environment.                                              *)
(***************************************************************************)
ProcessEnv(at, rt, ci, cs, t) ==
  [MS_TODO_ACCESS_TOKEN |-> at, MS_TODO_REFRESH_TOKEN |-> rt,
   CLIENT_ID |-> ci, CLIENT_SECRET |-> cs, TENANT_ID |-> t]

AccessNames == <<"A1", "A2", "A3", "A4", "A5", "A6">>
RefreshNames == <<"R1", "R2", "R3", "R4", "R5", "R6">>
AuthAccessNames == <<"F1", "F2", "F3", "F4">>
AuthRefreshNames == <<"G1", "G2", "G3", "G4">>

NoReq == [stage |-> "none"]
NoGet == [has |-> FALSE]
NoFetch == [sent |-> FALSE]
NoResp == [kind |-> "none"]
NoTool == [step |-> "none"]

(***************************************************************************)
(* The record of one operation of one caller: the locals of the code       *)
(* (token, newToken, refreshed, envTokens, method) and what the operation  *)
(* has done so far: the text the tool returned, the error thrown inside    *)
(* makeGraphRequest, the refresh token refreshToken sent, the response it  *)
(* got and the clock it read for expiresAt.                                *)
(***************************************************************************)
IdleCall ==
  [op |-> "none", pc |-> "idle", ctx |-> "none", src |-> "none",
   method |-> "none", hasBody |-> FALSE, token |-> Undefined, newToken |-> Undefined,
   envTokens |-> Null, refreshed |-> Null, tokens |-> Null,
   status1 |-> 0, status2 |-> 0, result |-> "none", threw |-> FALSE,
   text |-> "none", thrown |-> "none",
   rtSent |-> Undefined, rtResp |-> NoResp, rtClock |-> 0,
   sent1 |-> NoFetch, sent2 |-> NoFetch,
   httpCalls |-> 0, gtCalls |-> 0, tokenReqs |-> 0, rtCalls |-> 0, rtFailed |-> FALSE,
   canonReads |-> 0, legacyReads |-> 0, canonWrites |-> 0, cfgWrites |-> 0,
   startClock |-> 0, startCanon |-> Absent, startLegacy |-> Absent,
   startCfg |-> Absent, startAuth |-> Null, startSaved |-> Null, startPrompted |-> FALSE,
   startInFlight |-> FALSE,
   endCanon |-> Absent, prev |-> NoGet, validAt401 |-> FALSE, reqsAt401 |-> 0,
   tool |-> NoTool]

(***************************************************************************)
(* The part of the state one step of a caller reads and writes.            *)
(***************************************************************************)
Machine(p) ==
  [cur |-> currentTokens, canon |-> canonFile, legacy |-> legacyFile,
   cfg |-> claudeConfig,
   prompted |-> prompted, saved |-> lastSaved, auth |-> authWrote,
   lastGet |-> lastGet, req |-> tokenReq[p], c |-> call[p], exc |-> FALSE]

(***************************************************************************)
(* TokenManager.saveTokens: sets the cache, then writes the whole file.    *)
(* writeFileSync throws when the file cannot be written; the cache is      *)
(* already set then.                                                       *)
(***************************************************************************)
SaveTokensFileOnly(m, tokens) ==
  IF disk.canon
  THEN [m EXCEPT !.canon = JSONstringify(tokens), !.saved = tokens,
                 !.auth = Null, !.c.canonWrites = @ + 1]
  ELSE [m EXCEPT !.exc = TRUE]

saveTokens(m, tokens) ==
  IF disk.canon
  THEN [m EXCEPT !.cur = tokens, !.canon = JSONstringify(tokens), !.saved = tokens,
                 !.auth = Null, !.c.canonWrites = @ + 1]
  ELSE [m EXCEPT !.cur = tokens, !.exc = TRUE]

(***************************************************************************)
(* The desktop configuration file: JSON text with the other content of the *)
(* file, and, when mcpServers["microsoft-todo"] is there, its env map.     *)
(***************************************************************************)
ConfigText(indent, server, envMap) ==
  [kind |-> "json", indent |-> indent, rest |-> "other servers and settings",
   server |-> server, env |-> envMap]

TokenKeys == {"MS_TODO_ACCESS_TOKEN", "MS_TODO_REFRESH_TOKEN"}

SpreadEnv(envMap, tokens) ==
  [k \in DOMAIN envMap \cup TokenKeys |->
     IF k = "MS_TODO_ACCESS_TOKEN" THEN tokens.accessToken
     ELSE IF k = "MS_TODO_REFRESH_TOKEN" THEN tokens.refreshToken
     ELSE envMap[k]]

(***************************************************************************)
(* TokenManager.updateClaudeConfig: every failure is caught and logged.    *)
(***************************************************************************)
UpdateClaudeConfigUncaught(m, tokens) ==
  IF ~existsSync(m.cfg) THEN m
  ELSE IF ParseThrows(m.cfg) THEN [m EXCEPT !.exc = TRUE]
  ELSE IF ~m.cfg.server THEN m
  ELSE IF ~disk.cfg THEN [m EXCEPT !.exc = TRUE]
  ELSE [m EXCEPT !.cfg = [m.cfg EXCEPT !.indent = 2, !.env = SpreadEnv(m.cfg.env, tokens)],
                 !.c.cfgWrites = @ + 1]

\* The env map is replaced by the two token entries instead of being spread.
UpdateClaudeConfigReplacesEnv(m, tokens) ==
  IF ~existsSync(m.cfg) THEN m
  ELSE IF ParseThrows(m.cfg) THEN m
  ELSE IF ~m.cfg.server THEN m
  ELSE IF ~disk.cfg THEN m
  ELSE [m EXCEPT !.cfg = [m.cfg EXCEPT !.indent = 2,
                                       !.env = [k \in TokenKeys |-> SpreadEnv(m.cfg.env, tokens)[k]]],
                 !.c.cfgWrites = @ + 1]

updateClaudeConfig(m, tokens) ==
  IF ~existsSync(m.cfg) THEN m
  ELSE IF ParseThrows(m.cfg) THEN m
  ELSE IF ~m.cfg.server THEN m
  ELSE IF ~disk.cfg THEN m
  ELSE [m EXCEPT !.cfg = [m.cfg EXCEPT !.indent = 2, !.env = SpreadEnv(m.cfg.env, tokens)],
                 !.c.cfgWrites = @ + 1]

(***************************************************************************)
(* makeGraphRequest, lines 68-109: what it returns for the response it     *)
(* ends with.  A non-2xx status throws inside the try, with one message or *)
(* the other, and the catch returns null; so does a body that is not JSON. *)
(***************************************************************************)
Ok(status) == status >= 200 /\ status <= 299

GraphResult(method, resp) ==
  IF resp.kind = "throw" THEN "null"
  ELSE IF ~Ok(resp.status) THEN "null"
  ELSE IF method = "DELETE" THEN "empty"
  ELSE IF resp.body = "json" THEN "data"
  ELSE "null"

\* The error thrown inside the try of makeGraphRequest, lines 55-105.
GraphThrown(method, resp) ==
  IF resp.kind = "throw" THEN "network"
  ELSE IF ~Ok(resp.status)
  THEN IF resp.body = "MailboxNotEnabledForRESTAPI" THEN "personal-account"
       ELSE "http-error"
  ELSE IF method = "DELETE" THEN "none"
  ELSE IF resp.body = "json" THEN "none"
  ELSE "not-json"

\* The text a tool returns for the result of makeGraphRequest: the delete
\* tools (lines 892-902) do not look at it, the others (lines 835-853) do.
ToolText(method, result) ==
  IF method = "DELETE" THEN "deleted"
  ELSE IF result = "null" THEN "failed"
  ELSE "ok"

(***************************************************************************)
(* fetch(url, options) of makeGraphRequest: the request as it is sent.     *)
(* The body goes out only with POST and PATCH.                             *)
(***************************************************************************)
Fetch(method, hasBody, bearer) ==
  [sent |-> TRUE, url |-> "url", method |-> method,
   body |-> hasBody /\ method \in {"POST", "PATCH"}, auth |-> bearer]

(***************************************************************************)
(* makeGraphRequest, lines 26-55: the first call.                          *)
(***************************************************************************)
makeGraphRequest(m, token) ==
  [m EXCEPT !.c.token = token, !.c.sent1 = Fetch(m.c.method, m.c.hasBody, token),
            !.c.httpCalls = @ + 1, !.c.pc = "mg_fetch1"]

(***************************************************************************)
(* A tool that sends several requests: the locals of its handler.  What    *)
(* the lists hold is read off the answers: a request the resource API      *)
(* answered 2xx took effect, one it refused or that never arrived did not. *)
(***************************************************************************)
RequestSucceeded(c) == c.thrown \in {"none", "not-json"}

\* await makeGraphRequest(url, token, method, body) inside a tool, with the
\* token the tool got at its start.
ToolRequest(m, method, hasBody) ==
  makeGraphRequest([m EXCEPT !.c.method = method, !.c.hasBody = hasBody,
                             !.c.status1 = 0, !.c.status2 = 0,
                             !.c.newToken = Undefined, !.c.sent2 = NoFetch],
                   m.c.token)

ToolReturn(m, text) == [m EXCEPT !.c.pc = "done", !.c.text = text]

(***************************************************************************)
(* move-task, lines 2020-2193.  origItems checklist items hang on the      *)
(* original task; items is checklistItems.length.                          *)
(***************************************************************************)
MoveLocals(hasAttachments, origItems) ==
  [step |-> "get", hasAttachments |-> hasAttachments, origItems |-> origItems,
   items |-> 0, itemsSent |-> 0, itemsCreated |-> 0, posts |-> 0, deletes |-> 0,
   newTask |-> FALSE, copyCreated |-> FALSE, deleted |-> FALSE,
   reportedItems |-> 0, reportedDeleted |-> FALSE]

\* Lines 2138-2156: the loop over checklistItems, then the DELETE.
moveTaskItems(m) ==
  IF m.c.tool.itemsSent < m.c.tool.items
  THEN ToolRequest([m EXCEPT !.c.tool.step = "item", !.c.tool.itemsSent = @ + 1,
                             !.c.tool.posts = @ + 1], "POST", TRUE)
  ELSE ToolRequest([m EXCEPT !.c.tool.step = "delete", !.c.tool.deletes = @ + 1],
                   "DELETE", FALSE)

\* Lines 2043-2069: the original task has been fetched.
moveTaskAfterGet(m) ==
  IF m.c.result = "null" THEN ToolReturn(m, "failed-retrieve")
  ELSE IF m.c.tool.hasAttachments THEN ToolReturn(m, "has-attachments")
  ELSE ToolRequest([m EXCEPT !.c.tool.step = "checklist"], "GET", FALSE)

\* Lines 2072-2125: checklistResponse?.value || [], then the POST of the copy.
moveTaskAfterChecklist(m) ==
  ToolRequest([m EXCEPT !.c.tool.step = "create", !.c.tool.posts = @ + 1,
                        !.c.tool.items = IF m.c.result = "data"
                                         THEN m.c.tool.origItems ELSE 0],
              "POST", TRUE)

\* Lines 2127-2136: if (!newTask) return.
MoveTaskAfterCreateUnchecked(m) ==
  moveTaskItems([m EXCEPT !.c.tool.newTask = (m.c.result # "null"),
                          !.c.tool.copyCreated = RequestSucceeded(m.c)])

moveTaskAfterCreate(m) ==
  LET m1 == [m EXCEPT !.c.tool.newTask = (m.c.result # "null"),
                      !.c.tool.copyCreated = RequestSucceeded(m.c)]
  IN  IF m.c.result = "null" THEN ToolReturn(m1, "failed-create")
      ELSE moveTaskItems(m1)

\* Lines 2139-2149: the result of a checklist POST is not looked at.
moveTaskAfterItem(m) ==
  moveTaskItems([m EXCEPT !.c.tool.itemsCreated =
                            IF RequestSucceeded(m.c) THEN @ + 1 ELSE @])

\* Lines 2158-2183: the text the tool returns.
moveTaskAfterDelete(m) ==
  ToolReturn([m EXCEPT !.c.tool.deleted = RequestSucceeded(m.c),
                       !.c.tool.reportedItems = m.c.tool.items,
                       !.c.tool.reportedDeleted = (m.c.result # "null")],
             "moved")

moveTask(m) ==
  IF m.c.tool.step = "get" THEN moveTaskAfterGet(m)
  ELSE IF m.c.tool.step = "checklist" THEN moveTaskAfterChecklist(m)
  ELSE IF m.c.tool.step = "create" THEN moveTaskAfterCreate(m)
  ELSE IF m.c.tool.step = "item" THEN moveTaskAfterItem(m)
  ELSE moveTaskAfterDelete(m)

(***************************************************************************)
(* archive-completed-tasks, lines 1697-1840.  old completed tasks of the   *)
(* source list are older than the cutoff; tasks is tasksToArchive.length   *)
(* and i the task the loop is at.                                          *)
(***************************************************************************)
NoTask == [k \in 1..MaxTasks |-> FALSE]

ArchiveLocals(dryRun, old) ==
  [step |-> "list", dryRun |-> dryRun, old |-> old, tasks |-> 0, i |-> 0,
   posts |-> 0, deletes |-> 0, successCount |-> 0,
   createResponse |-> NoTask, copied |-> NoTask, deleteSent |-> NoTask,
   removed |-> NoTask, counted |-> NoTask, failedTasks |-> NoTask]

\* Lines 1786-1830: the next task of the loop, or the summary.
archiveNext(m) ==
  IF m.c.tool.i < m.c.tool.tasks
  THEN ToolRequest([m EXCEPT !.c.tool.step = "copy", !.c.tool.i = @ + 1,
                             !.c.tool.posts = @ + 1], "POST", TRUE)
  ELSE ToolReturn(m, "archived")

\* Lines 1739-1780: the list of completed tasks has been fetched.
ArchiveIgnoresDryRun(m) ==
  LET m1 == [m EXCEPT !.c.tool.tasks = m.c.tool.old]
  IN  IF m.c.result = "null" THEN ToolReturn(m, "failed-list")
      ELSE IF m.c.tool.old = 0 THEN ToolReturn(m1, "none-found")
      ELSE archiveNext(m1)

archiveAfterList(m) ==
  LET m1 == [m EXCEPT !.c.tool.tasks = m.c.tool.old]
  IN  IF m.c.result = "null" THEN ToolReturn(m, "failed-list")
      ELSE IF m.c.tool.old = 0 THEN ToolReturn(m1, "none-found")
      ELSE IF m.c.tool.dryRun THEN ToolReturn(m1, "preview")
      ELSE archiveNext(m1)

\* Lines 1805-1811: if (createResponse) DELETE, else failedTasks.push.
ArchiveDeletesRegardless(m) ==
  LET i == m.c.tool.i
  IN  ToolRequest([m EXCEPT !.c.tool.createResponse[i] = (m.c.result # "null"),
                            !.c.tool.copied[i] = RequestSucceeded(m.c),
                            !.c.tool.step = "remove", !.c.tool.deleteSent[i] = TRUE,
                            !.c.tool.deletes = @ + 1],
                  "DELETE", FALSE)

archiveAfterCopy(m) ==
  LET i == m.c.tool.i
      m1 == [m EXCEPT !.c.tool.createResponse[i] = (m.c.result # "null"),
                      !.c.tool.copied[i] = RequestSucceeded(m.c)]
  IN  IF m.c.result # "null"
      THEN ToolRequest([m1 EXCEPT !.c.tool.step = "remove", !.c.tool.deleteSent[i] = TRUE,
                                  !.c.tool.deletes = @ + 1],
                       "DELETE", FALSE)
      ELSE archiveNext([m1 EXCEPT !.c.tool.failedTasks[i] = TRUE])

\* Lines 1807-1808: the DELETE is awaited, its result dropped, successCount++.
archiveAfterRemove(m) ==
  LET i == m.c.tool.i
  IN  archiveNext([m EXCEPT !.c.tool.removed[i] = RequestSucceeded(m.c),
                            !.c.tool.counted[i] = TRUE,
                            !.c.tool.successCount = @ + 1])

archiveCompletedTasks(m) ==
  IF m.c.tool.step = "list" THEN archiveAfterList(m)
  ELSE IF m.c.tool.step = "copy" THEN archiveAfterCopy(m)
  ELSE archiveAfterRemove(m)

(***************************************************************************)
(* makeGraphRequest returns (lines 92-109) to the tool that awaits it.     *)
(***************************************************************************)
GraphFinish(m, resp) ==
  LET r == [m EXCEPT !.c.result = GraphResult(m.c.method, resp),
                     !.c.thrown = GraphThrown(m.c.method, resp)]
  IN  IF m.c.op = "move-task" THEN moveTask(r)
      ELSE IF m.c.op = "archive-completed-tasks" THEN archiveCompletedTasks(r)
      ELSE ToolReturn(r, ToolText(m.c.method, GraphResult(m.c.method, resp)))

(***************************************************************************)
(* makeGraphRequest, lines 61-66: after getAccessToken() has returned      *)
(* newToken for a 401.  Without a retry the 401 response is the one the    *)
(* request ends with.                                                      *)
(***************************************************************************)
RetryAnyToken(m, newToken) ==
  IF Truthy(newToken)
  THEN [m EXCEPT !.c.newToken = newToken,
                 !.c.sent2 = Fetch(m.c.method, m.c.hasBody, newToken),
                 !.c.httpCalls = @ + 1, !.c.pc = "mg_fetch2"]
  ELSE GraphFinish([m EXCEPT !.c.newToken = newToken],
                   [kind |-> "http", status |-> m.c.status1, body |-> "text"])

RetryWithoutBody(m, newToken) ==
  IF Truthy(newToken) /\ newToken # m.c.token
  THEN [m EXCEPT !.c.newToken = newToken,
                 !.c.sent2 = Fetch(m.c.method, FALSE, newToken),
                 !.c.httpCalls = @ + 1, !.c.pc = "mg_fetch2"]
  ELSE GraphFinish([m EXCEPT !.c.newToken = newToken],
                   [kind |-> "http", status |-> m.c.status1, body |-> "text"])

Retry(m, newToken) ==
  IF Truthy(newToken) /\ newToken # m.c.token
  THEN [m EXCEPT !.c.newToken = newToken,
                 !.c.sent2 = Fetch(m.c.method, m.c.hasBody, newToken),
                 !.c.httpCalls = @ + 1, !.c.pc = "mg_fetch2"]
  ELSE GraphFinish([m EXCEPT !.c.newToken = newToken],
                   [kind |-> "http", status |-> m.c.status1, body |-> "text"])

(***************************************************************************)
(* getAccessToken, lines 113-131: the access token of the record, or null. *)
(* A null token and an undefined one are both falsy for the callers.       *)
(***************************************************************************)
getAccessToken(tokens) == IF tokens # Null THEN tokens.accessToken ELSE Undefined

(***************************************************************************)
(* The return of getTokens to the code that awaits it: a direct caller     *)
(* (auth-status), a tool that asked for its token (lines 395-405), or      *)
(* makeGraphRequest after a 401 (line 60).                                 *)
(***************************************************************************)
GetTokensReturnNoTokenCheck(m, value) ==
  LET m1 == [m EXCEPT !.c.tokens = value, !.c.endCanon = m.canon]
  IN  IF m.c.ctx = "direct"
      THEN [m1 EXCEPT !.c.pc = "done",
                      !.lastGet = [has |-> TRUE, access |-> getAccessToken(value),
                                   tokenReqs |-> m.c.tokenReqs,
                                   rtFailed |-> m.c.rtFailed]]
      ELSE IF m.c.ctx = "tool"
      THEN makeGraphRequest(m1, getAccessToken(value))
      ELSE Retry(m1, getAccessToken(value))

getTokensReturn(m, value) ==
  LET m1 == [m EXCEPT !.c.tokens = value, !.c.endCanon = m.canon]
  IN  IF m.c.ctx = "direct"
      THEN [m1 EXCEPT !.c.pc = "done",
                      !.lastGet = [has |-> TRUE, access |-> getAccessToken(value),
                                   tokenReqs |-> m.c.tokenReqs,
                                   rtFailed |-> m.c.rtFailed]]
      ELSE IF m.c.ctx = "tool"
      THEN IF Truthy(getAccessToken(value))
           THEN makeGraphRequest(m1, getAccessToken(value))
           ELSE [m1 EXCEPT !.c.pc = "done", !.c.result = "authfail", !.c.text = "authfail"]
      ELSE Retry(m1, getAccessToken(value))

(***************************************************************************)
(* TokenManager.promptForReauth: prints the re-authentication message.     *)
(***************************************************************************)
promptForReauth(m) == [m EXCEPT !.prompted = TRUE]

(***************************************************************************)
(* TokenManager.refreshToken, lines 2322-2350: up to the await of fetch.   *)
(* The client credentials come from the cache, else from the environment.  *)
(* Without them it returns null; the code that awaits it resumes later.    *)
(***************************************************************************)
CacheField(m, k) == IF m.cur = Null THEN Undefined ELSE m.cur[k]

RefreshTokenPromptsWithoutCredentials(m, refresh) ==
  LET clientId == Or(CacheField(m, "clientId"), env.CLIENT_ID)
      clientSecret == Or(CacheField(m, "clientSecret"), env.CLIENT_SECRET)
      tenantId == Or(Or(CacheField(m, "tenantId"), env.TENANT_ID), "organizations")
      m1 == [m EXCEPT !.c.rtCalls = @ + 1]
  IN  IF ~Truthy(clientId) \/ ~Truthy(clientSecret)
      THEN [promptForReauth(m1) EXCEPT !.c.refreshed = Null, !.c.rtFailed = TRUE,
                                       !.c.pc = "gt_resume"]
      ELSE [m1 EXCEPT !.req = [stage |-> "sent", refresh_token |-> refresh,
                               client_id |-> clientId, client_secret |-> clientSecret,
                               tenant |-> tenantId],
                      !.c.tokenReqs = @ + 1, !.c.rtSent = refresh, !.c.pc = "rt_fetch"]

RefreshTokenNoCredentialCheck(m, refresh) ==
  LET clientId == Or(CacheField(m, "clientId"), env.CLIENT_ID)
      clientSecret == Or(CacheField(m, "clientSecret"), env.CLIENT_SECRET)
      tenantId == Or(Or(CacheField(m, "tenantId"), env.TENANT_ID), "organizations")
      m1 == [m EXCEPT !.c.rtCalls = @ + 1]
  IN  [m1 EXCEPT !.req = [stage |-> "sent", refresh_token |-> refresh,
                          client_id |-> clientId, client_secret |-> clientSecret,
                          tenant |-> tenantId],
                 !.c.tokenReqs = @ + 1, !.c.rtSent = refresh, !.c.pc = "rt_fetch"]

RefreshTokenSingleFlight(m, refresh) ==
  LET clientId == Or(CacheField(m, "clientId"), env.CLIENT_ID)
      clientSecret == Or(CacheField(m, "clientSecret"), env.CLIENT_SECRET)
      tenantId == Or(Or(CacheField(m, "tenantId"), env.TENANT_ID), "organizations")
      m1 == [m EXCEPT !.c.rtCalls = @ + 1]
  IN  IF ~Truthy(clientId) \/ ~Truthy(clientSecret)
           \/ (\E q \in Callers : tokenReq[q].stage # "none")
      THEN [m1 EXCEPT !.c.refreshed = Null, !.c.rtFailed = TRUE, !.c.pc = "gt_resume"]
      ELSE [m1 EXCEPT !.req = [stage |-> "sent", refresh_token |-> refresh,
                               client_id |-> clientId, client_secret |-> clientSecret,
                               tenant |-> tenantId],
                      !.c.tokenReqs = @ + 1, !.c.rtSent = refresh, !.c.pc = "rt_fetch"]

refreshToken(m, refresh) ==
  LET clientId == Or(CacheField(m, "clientId"), env.CLIENT_ID)
      clientSecret == Or(CacheField(m, "clientSecret"), env.CLIENT_SECRET)
      tenantId == Or(Or(CacheField(m, "tenantId"), env.TENANT_ID), "organizations")
      m1 == [m EXCEPT !.c.rtCalls = @ + 1]
  IN  IF ~Truthy(clientId) \/ ~Truthy(clientSecret)
      THEN [m1 EXCEPT !.c.refreshed = Null, !.c.rtFailed = TRUE, !.c.pc = "gt_resume"]
      ELSE [m1 EXCEPT !.req = [stage |-> "sent", refresh_token |-> refresh,
                               client_id |-> clientId, client_secret |-> clientSecret,
                               tenant |-> tenantId],
                      !.c.tokenReqs = @ + 1, !.c.rtSent = refresh, !.c.pc = "rt_fetch"]

(***************************************************************************)
(* TokenManager.refreshToken, lines 2352-2383: from the response on.  A    *)
(* response of kind "throw" is a fetch that rejects or a body that cannot  *)
(* be read; both end in the catch.  A failed write of the token file ends  *)
(* there too, after the cache was set, and so would an exception that      *)
(* left updateClaudeConfig.                                                *)
(***************************************************************************)
NewTokensAlwaysRotated(req, resp, now) ==
  StoredTokenData(resp.access_token, resp.refresh_token,
                  now + resp.expires_in * MsPerSecond - SafetyMarginMs,
                  req.client_id, req.client_secret, req.tenant)

NewTokensAsDuration(req, resp, now) ==
  StoredTokenData(resp.access_token, Or(resp.refresh_token, req.refresh_token),
                  resp.expires_in * MsPerSecond - SafetyMarginMs,
                  req.client_id, req.client_secret, req.tenant)

NewTokensMarginScaled(req, resp, now) ==
  StoredTokenData(resp.access_token, Or(resp.refresh_token, req.refresh_token),
                  now + resp.expires_in * MsPerSecond - SafetyMarginMs * MsPerSecond,
                  req.client_id, req.client_secret, req.tenant)

NewTokens(req, resp, now) ==
  StoredTokenData(resp.access_token, Or(resp.refresh_token, req.refresh_token),
                  now + resp.expires_in * MsPerSecond - SafetyMarginMs,
                  req.client_id, req.client_secret, req.tenant)

RefreshFailureClearsCache(m, resp) ==
  LET m0 == [m EXCEPT !.req = NoReq, !.c.pc = "gt_resume", !.c.rtResp = resp,
                      !.c.rtClock = clock]
      newTokens == NewTokens(m.req, resp, clock)
      s == saveTokens(m0, newTokens)
  IN  IF resp.kind = "throw" \/ ~resp.ok
      THEN [promptForReauth(m0) EXCEPT !.cur = Null, !.c.refreshed = Null,
                                       !.c.rtFailed = TRUE]
      ELSE IF s.exc
      THEN [promptForReauth(s) EXCEPT !.exc = FALSE, !.c.refreshed = Null,
                                      !.c.rtFailed = TRUE]
      ELSE [updateClaudeConfig(s, newTokens) EXCEPT !.c.refreshed = newTokens]

refreshTokenResponse(m, resp) ==
  LET m0 == [m EXCEPT !.req = NoReq, !.c.pc = "gt_resume", !.c.rtResp = resp,
                      !.c.rtClock = clock]
      newTokens == NewTokens(m.req, resp, clock)
      s == saveTokens(m0, newTokens)
      u == updateClaudeConfig(s, newTokens)
  IN  IF resp.kind = "throw" \/ ~resp.ok
      THEN [promptForReauth(m0) EXCEPT !.c.refreshed = Null, !.c.rtFailed = TRUE]
      ELSE IF s.exc
      THEN [promptForReauth(s) EXCEPT !.exc = FALSE, !.c.refreshed = Null,
                                      !.c.rtFailed = TRUE]
      ELSE IF u.exc
      THEN [promptForReauth(u) EXCEPT !.exc = FALSE, !.c.refreshed = Null,
                                      !.c.rtFailed = TRUE]
      ELSE [u EXCEPT !.c.refreshed = newTokens]

(***************************************************************************)
(* TokenManager.getTokens, lines 2303-2319: the legacy file.               *)
(***************************************************************************)
GetTokensLegacyNoMigration(m) ==
  LET m1 == [m EXCEPT !.c.src = "legacy", !.c.legacyReads = @ + 1]
  IN  IF ~existsSync(m.legacy) THEN getTokensReturn(m, Null)
      ELSE IF ParseThrows(m.legacy) THEN getTokensReturn(m1, Null)
      ELSE getTokensReturn([m1 EXCEPT !.cur = JSONparse(m.legacy)], JSONparse(m.legacy))

GetTokensLegacyChecksExpiry(m) ==
  LET m1 == [m EXCEPT !.c.src = "legacy", !.c.legacyReads = @ + 1]
      tokens == JSONparse(m.legacy)
      s == saveTokens(m1, tokens)
  IN  IF ~existsSync(m.legacy) THEN getTokensReturn(m, Null)
      ELSE IF ParseThrows(m.legacy) THEN getTokensReturn(m1, Null)
      ELSE IF s.exc THEN getTokensReturn([s EXCEPT !.exc = FALSE], Null)
      ELSE IF clock > tokens.expiresAt
      THEN refreshToken([s EXCEPT !.c.src = "canon"], tokens.refreshToken)
      ELSE getTokensReturn(s, tokens)

GetTokensLegacyUncaught(m) ==
  LET m1 == [m EXCEPT !.c.src = "legacy", !.c.legacyReads = @ + 1]
      tokens == JSONparse(m.legacy)
      s == saveTokens(m1, tokens)
  IN  IF ~existsSync(m.legacy) THEN getTokensReturn(m, Null)
      ELSE IF ParseThrows(m.legacy) THEN getTokensReturn(m1, Null)
      ELSE IF s.exc THEN [s EXCEPT !.exc = FALSE, !.c.pc = "done", !.c.threw = TRUE]
      ELSE getTokensReturn(s, tokens)

GetTokensLegacyMovesFile(m) ==
  LET m1 == [m EXCEPT !.c.src = "legacy", !.c.legacyReads = @ + 1]
      tokens == JSONparse(m.legacy)
      s == saveTokens(m1, tokens)
  IN  IF ~existsSync(m.legacy) THEN getTokensReturn(m, Null)
      ELSE IF ParseThrows(m.legacy) THEN getTokensReturn(m1, Null)
      ELSE IF s.exc THEN getTokensReturn([s EXCEPT !.exc = FALSE], Null)
      ELSE getTokensReturn([s EXCEPT !.legacy = Absent], tokens)

getTokensLegacy(m) ==
  LET m1 == [m EXCEPT !.c.src = "legacy", !.c.legacyReads = @ + 1]
      tokens == JSONparse(m.legacy)
      s == saveTokens(m1, tokens)
  IN  IF ~existsSync(m.legacy) THEN getTokensReturn(m, Null)
      ELSE IF ParseThrows(m.legacy) THEN getTokensReturn(m1, Null)
      ELSE IF s.exc THEN getTokensReturn([s EXCEPT !.exc = FALSE], Null)
      ELSE getTokensReturn(s, tokens)

(***************************************************************************)
(* The expiry check of getTokens, lines 2271 and 2289.                     *)
(***************************************************************************)
ExpiredInverted(now, tokens) == now < tokens.expiresAt

ExpiredWithinMargin(now, tokens) == now + SafetyMarginMs >= tokens.expiresAt

Expired(now, tokens) == now > tokens.expiresAt

(***************************************************************************)
(* TokenManager.getTokens, lines 2281-2301: the canonical file.            *)
(***************************************************************************)
GetTokensStoredCorruptIsNull(m) ==
  LET m1 == [m EXCEPT !.c.canonReads = @ + 1]
      parsed == JSONparse(m.canon)
      m2 == [m1 EXCEPT !.cur = parsed, !.c.src = "canon"]
  IN  IF ~existsSync(m.canon) THEN getTokensLegacy(m)
      ELSE IF ParseThrows(m.canon) THEN getTokensReturn(m1, Null)
      ELSE IF parsed = Null THEN getTokensLegacy([m1 EXCEPT !.cur = Null])
      ELSE IF Expired(clock, parsed) THEN refreshToken(m2, parsed.refreshToken)
      ELSE getTokensReturn(m2, parsed)

GetTokensStoredFromCache(m) ==
  LET m1 == [m EXCEPT !.c.canonReads = @ + 1]
      parsed == IF m.cur # Null THEN m.cur ELSE JSONparse(m.canon)
      m2 == [m1 EXCEPT !.cur = parsed, !.c.src = "canon"]
  IN  IF ~existsSync(m.canon) THEN getTokensLegacy(m)
      ELSE IF ParseThrows(m.canon) THEN getTokensLegacy(m1)
      ELSE IF parsed = Null THEN getTokensLegacy([m1 EXCEPT !.cur = Null])
      ELSE IF Expired(clock, parsed) THEN refreshToken(m2, parsed.refreshToken)
      ELSE getTokensReturn(m2, parsed)

getTokensStored(m) ==
  LET m1 == [m EXCEPT !.c.canonReads = @ + 1]
      parsed == JSONparse(m.canon)
      m2 == [m1 EXCEPT !.cur = parsed, !.c.src = "canon"]
  IN  IF ~existsSync(m.canon) THEN getTokensLegacy(m)
      ELSE IF ParseThrows(m.canon) THEN getTokensLegacy(m1)
      ELSE IF parsed = Null THEN getTokensLegacy([m1 EXCEPT !.cur = Null])
      ELSE IF Expired(clock, parsed) THEN refreshToken(m2, parsed.refreshToken)
      ELSE getTokensReturn(m2, parsed)

(***************************************************************************)
(* TokenManager.getTokens, lines 2261-2279: the environment pair first.    *)
(* Its expiresAt is computed from the clock of this very call.             *)
(***************************************************************************)
HasEnvPair == Truthy(env.MS_TODO_ACCESS_TOKEN) /\ Truthy(env.MS_TODO_REFRESH_TOKEN)

GetTokensFilesFirst(m) ==
  LET envTokens == TokenData(env.MS_TODO_ACCESS_TOKEN, env.MS_TODO_REFRESH_TOKEN,
                             clock + EnvLifetimeMs)
      n == [m EXCEPT !.c.gtCalls = @ + 1]
      m1 == [n EXCEPT !.c.src = "env", !.c.envTokens = envTokens]
  IN  IF existsSync(m.canon) \/ existsSync(m.legacy) \/ ~HasEnvPair
      THEN getTokensStored(n)
      ELSE getTokensReturn(m1, envTokens)

getTokens(m) ==
  LET envTokens == TokenData(env.MS_TODO_ACCESS_TOKEN, env.MS_TODO_REFRESH_TOKEN,
                             clock + EnvLifetimeMs)
      n == [m EXCEPT !.c.gtCalls = @ + 1]
      m1 == [n EXCEPT !.c.src = "env", !.c.envTokens = envTokens]
  IN  IF ~HasEnvPair THEN getTokensStored(n)
      ELSE IF Expired(clock, envTokens) THEN refreshToken(m1, envTokens.refreshToken)
      ELSE getTokensReturn(m1, envTokens)

(***************************************************************************)
(* TokenManager.getTokens after the await of refreshToken, lines 2274-2278 *)
(* and 2292-2296: the refreshed record, else the environment pair or the   *)
(* cache as it is now.                                                     *)
(***************************************************************************)
GetTokensResumeFallsThrough(m) ==
  IF m.c.refreshed # Null THEN getTokensReturn(m, m.c.refreshed)
  ELSE IF m.c.src = "env" THEN getTokensReturn(m, m.c.envTokens)
  ELSE getTokensLegacy(m)

getTokensResume(m) ==
  IF m.c.refreshed # Null THEN getTokensReturn(m, m.c.refreshed)
  ELSE IF m.c.src = "env" THEN getTokensReturn(m, m.c.envTokens)
  ELSE getTokensReturn(m, m.cur)

(***************************************************************************)
(* TokenManager.storeCredentials: changes the cached record in place and   *)
(* saves it; does nothing without a cached record.                         *)
(***************************************************************************)
storeCredentials(m, clientId, clientSecret, tenantId) ==
  IF m.cur = Null THEN m
  ELSE saveTokens(m, [m.cur EXCEPT !.clientId = clientId, !.clientSecret = clientSecret,
                                   !.tenantId = tenantId])

(***************************************************************************)
(* The states the process can start in.                                    *)
(***************************************************************************)
EnvPairs == {<<Undefined, Undefined>>, <<"EA", "ER">>}

EnvCreds == {<<Undefined, Undefined, Undefined>>, <<"env-id", "env-secret", "env-tenant">>}

RecordCreds == {<<Undefined, Undefined, Undefined>>, <<"rec-id", "rec-secret", "rec-tenant">>}

StoredRecords ==
  {StoredTokenData("S0", "Q0", e, k[1], k[2], k[3]) :
     e \in {T0, T0 + TickMs}, k \in RecordCreds}

LegacyRecords == {TokenData("L0", "M0", T0 - TickMs)}

CanonFiles == {Absent, Corrupt, JsonText(Null, 2)} \cup {JsonText(r, 2) : r \in StoredRecords}

LegacyFiles == {Absent, Corrupt} \cup {JsonText(r, 0) : r \in LegacyRecords}

ConfigEnv == [k \in {"LOG_LEVEL"} \cup TokenKeys |-> "old"]

ConfigFiles == {Absent, Corrupt, ConfigText(4, FALSE, ConfigEnv), ConfigText(4, TRUE, ConfigEnv)}

Disks == {[canon |-> TRUE, cfg |-> TRUE], [canon |-> FALSE, cfg |-> TRUE],
          [canon |-> TRUE, cfg |-> FALSE]}

SavedRecords == {StoredTokenData("V0", "W0", T0 + 2 * TickMs, "arg-id", "arg-secret", "arg-tenant")}

InitWith(callers, configs, disks) ==
  /\ clock = T0
  /\ env \in {ProcessEnv(t[1], t[2], k[1], k[2], k[3]) : t \in EnvPairs, k \in EnvCreds}
  /\ canonFile \in CanonFiles
  /\ legacyFile \in LegacyFiles
  /\ claudeConfig \in configs
  /\ disk \in disks
  /\ currentTokens = Null
  /\ call = [p \in Callers |-> IdleCall]
  /\ tokenReq = [p \in Callers |-> NoReq]
  /\ issued = 0
  /\ lastIssued = Undefined
  /\ prompted = FALSE
  /\ auths = 0
  /\ authWrote = Null
  /\ lastSaved = Null
  /\ lastGet = NoGet
  /\ ops = 0
  /\ active = callers

\* One caller; the configuration file has the server entry and can be written.
Init == InitWith({"c1"}, {ConfigText(4, TRUE, ConfigEnv)},
                 {d \in Disks : d.cfg})

(***************************************************************************)
(* Steps.                                                                  *)
(***************************************************************************)
CanStart(p) == p \in active /\ call[p].pc \in {"idle", "done"} /\ ops < MaxOps

Begin(op, ctx) ==
  [IdleCall EXCEPT !.op = op, !.ctx = ctx, !.startClock = clock, !.startCanon = canonFile,
                   !.startLegacy = legacyFile, !.startCfg = claudeConfig,
                   !.startAuth = authWrote, !.startSaved = lastSaved,
                   !.startPrompted = prompted, !.endCanon = canonFile,
                   !.startInFlight = (\E q \in Callers : tokenReq[q].stage # "none")]

Commit(p, m) ==
  /\ currentTokens' = m.cur
  /\ canonFile' = m.canon
  /\ legacyFile' = m.legacy
  /\ claudeConfig' = m.cfg
  /\ prompted' = m.prompted
  /\ lastSaved' = m.saved
  /\ authWrote' = m.auth
  /\ lastGet' = m.lastGet
  /\ tokenReq' = [tokenReq EXCEPT ![p] = m.req]
  /\ call' = [call EXCEPT ![p] = m.c]

\* A direct call of tokenManager.getTokens(), as by auth-status (line 201).
CallGetTokens(p) ==
  /\ CanStart(p)
  /\ Commit(p, getTokens([Machine(p) EXCEPT
                            !.c = [Begin("getTokens", "direct") EXCEPT !.prev = lastGet]]))
  /\ ops' = ops + 1
  /\ UNCHANGED <<clock, env, disk, issued, lastIssued, auths, active>>

\* A tool: getAccessToken(), then makeGraphRequest(url, token, method, body).
CallTool(p) ==
  /\ CanStart(p)
  /\ \E method \in {"POST", "DELETE"} :
       Commit(p, getTokens([Machine(p) EXCEPT
                              !.c = [Begin("tool", "tool") EXCEPT
                                       !.method = method, !.hasBody = (method = "POST")],
                              !.lastGet = NoGet]))
  /\ ops' = ops + 1
  /\ UNCHANGED <<clock, env, disk, issued, lastIssued, auths, active>>

\* tokenManager.saveTokens(record), called from outside the class.
CallSaveTokens(p) ==
  /\ CanStart(p)
  /\ \E rec \in SavedRecords :
       LET s == saveTokens([Machine(p) EXCEPT !.c = Begin("saveTokens", "direct"),
                                              !.lastGet = NoGet], rec)
       IN  Commit(p, [s EXCEPT !.c.pc = "done", !.c.threw = s.exc, !.c.endCanon = s.canon])
  /\ ops' = ops + 1
  /\ UNCHANGED <<clock, env, disk, issued, lastIssued, auths, active>>

\* tokenManager.storeCredentials(clientId, clientSecret, tenantId).
CallStoreCredentials(p) ==
  /\ CanStart(p)
  /\ LET s == storeCredentials([Machine(p) EXCEPT !.c = Begin("storeCredentials", "direct"),
                                                  !.lastGet = NoGet],
                               "new-id", "new-secret", "new-tenant")
     IN  Commit(p, [s EXCEPT !.c.pc = "done", !.c.threw = s.exc, !.c.endCanon = s.canon])
  /\ ops' = ops + 1
  /\ UNCHANGED <<clock, env, disk, issued, lastIssued, auths, active>>

(***************************************************************************)
(* The identity provider answers an exchange: it issues a new access token *)
(* with or without a new refresh token, rejects the request, or the        *)
(* exchange fails on the way.                                              *)
(***************************************************************************)
ExpiresIn == {60, 3600}

TokenResponsesUpTo(n, bound) ==
  {[kind |-> "throw"], [kind |-> "http", ok |-> FALSE]}
  \cup (IF n < bound
        THEN {[kind |-> "http", ok |-> TRUE, access_token |-> AccessNames[n + 1],
               refresh_token |-> r, expires_in |-> e] :
                 r \in {Undefined, RefreshNames[n + 1]}, e \in ExpiresIn}
        ELSE {})

TokenResponses(n) == TokenResponsesUpTo(n, MaxIssued)

ProviderAnswersWith(p, responses) ==
  /\ tokenReq[p].stage = "sent"
  /\ \E resp \in responses :
       /\ tokenReq' = [tokenReq EXCEPT ![p] = [@ EXCEPT !.stage = "answered"] @@ [response |-> resp]]
       /\ issued' = IF resp.kind = "http" /\ resp.ok THEN issued + 1 ELSE issued
       /\ lastIssued' = IF resp.kind = "http" /\ resp.ok /\ Truthy(resp.refresh_token)
                        THEN resp.refresh_token ELSE lastIssued
  /\ UNCHANGED <<clock, env, canonFile, legacyFile, claudeConfig, disk, currentTokens, call,
                 prompted, auths, authWrote, lastSaved, lastGet, ops, active>>

ProviderAnswers(p) == ProviderAnswersWith(p, TokenResponses(issued))

\* The same when two refreshes race: the provider can accept both.
ProviderAnswersRace(p) ==
  ProviderAnswersWith(p, TokenResponsesUpTo(issued, MaxRaceIssued))

\* The response of the token endpoint reaches refreshToken.
RefreshResponse(p) ==
  /\ tokenReq[p].stage = "answered"
  /\ Commit(p, refreshTokenResponse(Machine(p), tokenReq[p].response))
  /\ UNCHANGED <<clock, env, disk, issued, lastIssued, auths, ops, active>>

\* getTokens resumes after its await of refreshToken.
GetTokensResume(p) ==
  /\ call[p].pc = "gt_resume"
  /\ Commit(p, getTokensResume(Machine(p)))
  /\ UNCHANGED <<clock, env, disk, issued, lastIssued, auths, ops, active>>

(***************************************************************************)
(* The resource API answers.                                               *)
(***************************************************************************)
GraphResponses ==
  {[kind |-> "throw"]}
  \cup {[kind |-> "http", status |-> 200, body |-> b] : b \in {"json", "text"}}
  \cup {[kind |-> "http", status |-> Unauthorized, body |-> "text"],
        [kind |-> "http", status |-> 403, body |-> "MailboxNotEnabledForRESTAPI"],
        [kind |-> "http", status |-> 500, body |-> "text"]}

\* The canonical file holds a record that the local clock does not yet take
\* for expired, and client credentials for an exchange are at hand.
StoredValid ==
  /\ ~HasEnvPair
  /\ existsSync(canonFile)
  /\ ~ParseThrows(canonFile)
  /\ JSONparse(canonFile) # Null
  /\ clock < JSONparse(canonFile).expiresAt
  /\ Truthy(Or(JSONparse(canonFile).clientId, env.CLIENT_ID))
  /\ Truthy(Or(JSONparse(canonFile).clientSecret, env.CLIENT_SECRET))

\* The first response reaches makeGraphRequest (line 55 on).
GraphResponse(p) ==
  /\ call[p].pc = "mg_fetch1"
  /\ \E resp \in GraphResponses :
       LET m == Machine(p)
       IN  IF resp.kind = "http" /\ resp.status = Unauthorized
           THEN Commit(p, getTokens([m EXCEPT !.c.status1 = resp.status, !.c.ctx = "retry",
                                              !.c.validAt401 = StoredValid,
                                              !.c.reqsAt401 = m.c.tokenReqs]))
           ELSE IF resp.kind = "http"
           THEN Commit(p, GraphFinish([m EXCEPT !.c.status1 = resp.status], resp))
           ELSE Commit(p, GraphFinish(m, resp))
  /\ UNCHANGED <<clock, env, disk, issued, lastIssued, auths, ops, active>>

\* The response to the retry reaches makeGraphRequest (line 64 on).
\* Here a 401 for the retry starts the token lookup and the retry over.
GraphRetryResponseLoops(p) ==
  /\ call[p].pc = "mg_fetch2"
  /\ \E resp \in GraphResponses :
       LET m == Machine(p)
       IN  IF resp.kind = "http" /\ resp.status = Unauthorized
           THEN Commit(p, getTokens([m EXCEPT !.c.status2 = resp.status,
                                              !.c.token = m.c.newToken]))
           ELSE IF resp.kind = "http"
           THEN Commit(p, GraphFinish([m EXCEPT !.c.status2 = resp.status], resp))
           ELSE Commit(p, GraphFinish(m, resp))
  /\ UNCHANGED <<clock, env, disk, issued, lastIssued, auths, ops, active>>

GraphRetryResponse(p) ==
  /\ call[p].pc = "mg_fetch2"
  /\ \E resp \in GraphResponses :
       LET m == Machine(p)
       IN  IF resp.kind = "http"
           THEN Commit(p, GraphFinish([m EXCEPT !.c.status2 = resp.status], resp))
           ELSE Commit(p, GraphFinish(m, resp))
  /\ UNCHANGED <<clock, env, disk, issued, lastIssued, auths, ops, active>>

\* Time passes, between operations and while a request is in flight.  No time
\* passes between the return of refreshToken and the code that awaits it.  The
\* clock is read when a token response arrives and when a first resource
\* response arrives: a tick before the provider answers stands for one after,
\* and nothing reads the clock once the retry is out.
Tick ==
  /\ clock < T0 + MaxTicks * TickMs
  /\ \A p \in Callers : call[p].pc \notin {"gt_resume", "mg_fetch2"}
  /\ \A p \in Callers : tokenReq[p].stage # "answered"
  /\ clock' = clock + TickMs
  /\ lastGet' = NoGet
  /\ UNCHANGED <<env, canonFile, legacyFile, claudeConfig, disk, currentTokens, call, tokenReq,
                 issued, lastIssued, prompted, auths, authWrote, lastSaved, ops, active>>

(***************************************************************************)
(* The external interactive auth flow, another process, run by the user    *)
(* once the prompt has asked for it, writes a fresh record with the client *)
(* credentials to the token file that the prompt names (line 2438).        *)
(***************************************************************************)
FreshRecord(n, now) ==
  StoredTokenData(AuthAccessNames[n], AuthRefreshNames[n],
                  now + EnvLifetimeMs - SafetyMarginMs, "app-id", "app-secret", "app-tenant")

ExternalAuth ==
  /\ auths < MaxAuth
  /\ prompted
  /\ disk.canon
  /\ auths' = auths + 1
  /\ canonFile' = JsonText(FreshRecord(auths + 1, clock), 2)
  /\ authWrote' = FreshRecord(auths + 1, clock)
  /\ lastSaved' = Null
  /\ lastGet' = NoGet
  /\ UNCHANGED <<clock, env, legacyFile, claudeConfig, disk, currentTokens, call, tokenReq,
                 issued, lastIssued, prompted, ops, active>>

Next ==
  \/ \E p \in Callers : CallGetTokens(p)
  \/ \E p \in Callers : CallTool(p)
  \/ \E p \in Callers : CallSaveTokens(p)
  \/ \E p \in Callers : CallStoreCredentials(p)
  \/ \E p \in Callers : ProviderAnswers(p)
  \/ \E p \in Callers : RefreshResponse(p)
  \/ \E p \in Callers : GetTokensResume(p)
  \/ \E p \in Callers : GraphResponse(p)
  \/ \E p \in Callers : GraphRetryResponse(p)
  \/ Tick
  \/ ExternalAuth

Spec == Init /\ [][Next]_vars

\* Every network exchange returns or fails, and code that awaits a promise
\* runs once the promise is settled.
Fairness ==
  \A p \in Callers :
    /\ WF_vars(ProviderAnswers(p))
    /\ WF_vars(RefreshResponse(p))
    /\ WF_vars(GetTokensResume(p))
    /\ WF_vars(GraphResponse(p))
    /\ WF_vars(GraphRetryResponse(p))

FairSpec == Spec /\ Fairness

\* One caller and a token file that can be written; the configuration file is
\* missing, unparsable, without the server entry, or cannot be written.
InitConfig == InitWith({"c1"}, ConfigFiles, {d \in Disks : ~d.cfg})

SpecConfig == InitConfig /\ [][Next]_vars

\* One caller and files that can be written; the configuration file is
\* missing, unparsable, without the server entry, or has it.
InitDesktop == InitWith({"c1"}, ConfigFiles, {d \in Disks : d.canon /\ d.cfg})

SpecDesktop == InitDesktop /\ [][Next]_vars

\* The process runs on for more than the hour that getTokens assumes for the
\* environment pair (line 2267).
HourPasses ==
  /\ clock < T0 + MaxHours * HourMs
  /\ \A p \in Callers : call[p].pc \notin {"gt_resume", "mg_fetch2"}
  /\ \A p \in Callers : tokenReq[p].stage # "answered"
  /\ clock' = clock + HourMs
  /\ lastGet' = NoGet
  /\ UNCHANGED <<env, canonFile, legacyFile, claudeConfig, disk, currentTokens, call, tokenReq,
                 issued, lastIssued, prompted, auths, authWrote, lastSaved, ops, active>>

NextHours ==
  \/ Next
  \/ HourPasses

SpecHours == Init /\ [][NextHours]_vars

\* Two callers that call getTokens() at the same time on a record that expires
\* at the first tick, with a provider that can accept both exchanges.
NextRace ==
  \/ \E p \in Callers : CallGetTokens(p)
  \/ \E p \in Callers : ProviderAnswersRace(p)
  \/ \E p \in Callers : RefreshResponse(p)
  \/ \E p \in Callers : GetTokensResume(p)
  \/ Tick

\* Two callers whose operations interleave at the awaits.  Every file can be
\* written, the environment has neither a token pair nor client credentials,
\* there is no legacy file, and the canonical file holds a record that expires
\* at the first tick.
InitTwo ==
  /\ InitWith(Callers, {ConfigText(4, TRUE, ConfigEnv)}, {d \in Disks : d.canon /\ d.cfg})
  /\ ~HasEnvPair
  /\ ~Truthy(env.CLIENT_ID)
  /\ legacyFile = Absent
  /\ IsRecordFile(canonFile)
  /\ JSONparse(canonFile).expiresAt = T0

SpecTwo == InitTwo /\ [][Next]_vars

SpecRace == InitTwo /\ [][NextRace]_vars

(***************************************************************************)
(* The tools that send several requests, one caller.  Either the           *)
(* environment holds the token pair, or the canonical file holds a record  *)
(* that expires at the first tick; no legacy file, no client credentials   *)
(* in the environment, files that can be written.                          *)
(***************************************************************************)
CallMoveTask(p) ==
  /\ CanStart(p)
  /\ ops < MaxToolOps
  /\ \E hasAttachments \in BOOLEAN, origItems \in 0..MaxItems :
       Commit(p, getTokens([Machine(p) EXCEPT
                              !.c = [Begin("move-task", "tool") EXCEPT
                                       !.method = "GET",
                                       !.tool = MoveLocals(hasAttachments, origItems)],
                              !.lastGet = NoGet]))
  /\ ops' = ops + 1
  /\ UNCHANGED <<clock, env, disk, issued, lastIssued, auths, active>>

CallArchiveCompletedTasks(p) ==
  /\ CanStart(p)
  /\ ops < MaxToolOps
  /\ \E dryRun \in BOOLEAN, old \in 0..MaxTasks :
       Commit(p, getTokens([Machine(p) EXCEPT
                              !.c = [Begin("archive-completed-tasks", "tool") EXCEPT
                                       !.method = "GET",
                                       !.tool = ArchiveLocals(dryRun, old)],
                              !.lastGet = NoGet]))
  /\ ops' = ops + 1
  /\ UNCHANGED <<clock, env, disk, issued, lastIssued, auths, active>>

NextTools ==
  \/ \E p \in Callers : CallMoveTask(p)
  \/ \E p \in Callers : CallArchiveCompletedTasks(p)
  \/ \E p \in Callers : ProviderAnswers(p)
  \/ \E p \in Callers : RefreshResponse(p)
  \/ \E p \in Callers : GetTokensResume(p)
  \/ \E p \in Callers : GraphResponse(p)
  \/ \E p \in Callers : GraphRetryResponse(p)
  \/ Tick

InitTools ==
  /\ InitWith({"c1"}, {ConfigText(4, TRUE, ConfigEnv)}, {d \in Disks : d.canon /\ d.cfg})
  /\ ~Truthy(env.CLIENT_ID)
  /\ legacyFile = Absent
  /\ \/ HasEnvPair /\ canonFile = Absent
     \/ ~HasEnvPair /\ IsRecordFile(canonFile) /\ JSONparse(canonFile).expiresAt = T0

SpecTools == InitTools /\ [][NextTools]_vars

(***************************************************************************)
(* Properties.                                                             *)
(***************************************************************************)
Done(c) == c.pc = "done"

\* The record has exactly the members of the JSON text, with their values.
SameFields(tokens, file) ==
  /\ tokens # Null
  /\ \A k \in Fields :
       IF k \in DOMAIN file.members THEN tokens[k] = file.members[k]
       ELSE tokens[k] = Undefined

\* C1: a makeGraphRequest invocation issues at most two calls to the resource
\* API; the second only after a 401 on the first and a non-null token from the
\* token manager that differs from the first one; a 401 on both ends in the
\* failure result, with no third call.
C1_AtMostOneRetry ==
  \A p \in Callers :
    LET c == call[p]
    IN  /\ c.httpCalls <= 2
        /\ c.httpCalls = 2 =>
             /\ c.status1 = Unauthorized
             /\ Truthy(c.newToken)
             /\ c.newToken # c.token
             /\ c.sent2.auth = c.newToken
        /\ (Done(c) /\ c.status1 = Unauthorized /\ c.status2 = Unauthorized) =>
             (c.result = "null" /\ c.httpCalls = 2)

C1_Witness ==
  \E p \in Callers :
    /\ Done(call[p])
    /\ call[p].httpCalls = 2
    /\ call[p].status1 = Unauthorized
    /\ call[p].status2 = Unauthorized
    /\ call[p].result = "null"

\* C2: after a 401, the request client forces an exchange at the token endpoint
\* even when the stored record is not expired by the local clock (here with the
\* client credentials at hand), and retries once with the refreshed token.
C2_ForcedRefreshOn401 ==
  \A p \in Callers :
    LET c == call[p]
    IN  (Done(c) /\ c.op = "tool" /\ c.status1 = Unauthorized /\ c.validAt401) =>
          (c.tokenReqs > c.reqsAt401 /\ c.httpCalls = 2)

\* C3: with no environment pair and a canonical record whose expiresAt is in
\* the past, one getTokens() call invokes the refresh path exactly once and
\* sends at most one request to the token endpoint.
ExpiredAtStart(c) ==
  /\ ~HasEnvPair
  /\ IsRecordFile(c.startCanon)
  /\ c.startCanon.members["expiresAt"] < c.startClock

C3_OneRefreshWhenExpired ==
  \A p \in Callers :
    LET c == call[p]
    IN  (c.op = "getTokens" /\ c.pc # "idle" /\ ExpiredAtStart(c)) =>
          (c.rtCalls = 1 /\ c.tokenReqs <= 1)

C3_Witness ==
  \E p \in Callers :
    /\ call[p].op = "getTokens"
    /\ Done(call[p])
    /\ ExpiredAtStart(call[p])
    /\ call[p].tokenReqs = 1

\* C4: when getTokens() finds the canonical record expired and the refresh
\* fails, it returns null and never the expired record.
C4_NullWhenRefreshFails ==
  \A p \in Callers :
    LET c == call[p]
    IN  (c.op = "getTokens" /\ Done(c) /\ ExpiredAtStart(c) /\ c.rtFailed) =>
          c.tokens = Null

\* C5: with no environment pair and a canonical record whose expiresAt is in
\* the future, getTokens() returns that record with every field as stored,
\* sends nothing, and writes neither the canonical nor the configuration file.
ValidAtStart(c) ==
  /\ ~HasEnvPair
  /\ IsRecordFile(c.startCanon)
  /\ c.startCanon.members["expiresAt"] > c.startClock

C5_ValidRecordReturnedUntouched ==
  \A p \in Callers :
    LET c == call[p]
    IN  (c.op = "getTokens" /\ c.pc # "idle" /\ ValidAtStart(c)) =>
          /\ Done(c)
          /\ SameFields(c.tokens, c.startCanon)
          /\ c.rtCalls = 0 /\ c.tokenReqs = 0 /\ c.httpCalls = 0
          /\ c.canonWrites = 0 /\ c.cfgWrites = 0
          /\ c.endCanon = c.startCanon

C5_Witness ==
  \E p \in Callers :
    /\ call[p].op = "getTokens"
    /\ Done(call[p])
    /\ ValidAtStart(call[p])
    /\ call[p].tokens # Null
    /\ call[p].tokens.clientId # Undefined
    /\ claudeConfig.kind = "json" /\ claudeConfig.server /\ disk.cfg /\ disk.canon

\* C6: two getTokens() calls in succession, with nothing changing in between,
\* return the same access token and together send at most one refresh request,
\* whether the first refresh succeeded or failed.  Stated for the second of
\* the two cases the claim names: the first call's refresh failed.
C6_SecondCallIdempotent ==
  \A p \in Callers :
    LET c == call[p]
    IN  (c.op = "getTokens" /\ Done(c) /\ c.prev.has /\ c.prev.rtFailed) =>
          /\ getAccessToken(c.tokens) = c.prev.access
          /\ c.prev.tokenReqs + c.tokenReqs <= 1

\* C7: with both MS_TODO_ACCESS_TOKEN and MS_TODO_REFRESH_TOKEN set,
\* getTokens() returns the environment pair and reads neither the canonical
\* nor the legacy file, whatever they contain.
C7_EnvPairExclusive ==
  \A p \in Callers :
    LET c == call[p]
    IN  (c.op \in {"getTokens", "tool"} /\ HasEnvPair) =>
          /\ c.canonReads = 0 /\ c.legacyReads = 0
          /\ (c.op = "getTokens" /\ Done(c)) =>
               /\ c.tokens # Null
               /\ c.tokens.accessToken = env.MS_TODO_ACCESS_TOKEN
               /\ c.tokens.refreshToken = env.MS_TODO_REFRESH_TOKEN

C7_Witness ==
  \E p \in Callers :
    /\ call[p].op = "getTokens"
    /\ Done(call[p])
    /\ HasEnvPair
    /\ IsRecordFile(call[p].startCanon)
    /\ IsRecordFile(legacyFile)
    /\ call[p].tokens # Null
    /\ call[p].tokens.accessToken = "EA"

LegacyOnly(c) ==
  /\ ~HasEnvPair
  /\ ~existsSync(c.startCanon)
  /\ IsRecordFile(c.startLegacy)

Migrated(c) ==
  /\ SameFields(c.tokens, c.startLegacy)
  /\ IsRecordFile(c.endCanon)
  /\ c.endCanon.members = c.startLegacy.members

C9_LegacyMigrationAlways ==
  \A p \in Callers :
    LET c == call[p]
    IN  (c.op = "getTokens" /\ Done(c) /\ LegacyOnly(c)) => Migrated(c)

\* C9, amended: the same, provided the canonical file can be written; when
\* the write fails, getTokens() returns null and creates no canonical file.
C9_LegacyMigration ==
  \A p \in Callers :
    LET c == call[p]
    IN  (c.op = "getTokens" /\ Done(c) /\ LegacyOnly(c)) =>
          IF disk.canon THEN Migrated(c)
          ELSE c.tokens = Null /\ ~existsSync(c.endCanon)

C9_Witness ==
  \E p \in Callers :
    /\ call[p].op = "getTokens"
    /\ Done(call[p])
    /\ LegacyOnly(call[p])
    /\ disk.canon
    /\ Migrated(call[p])
    /\ call[p].canonWrites = 1

\* C10: saveTokens(record) followed by a load of the canonical file, a
\* getTokens() call with no environment pair and the record unexpired, yields
\* a record equal to the saved one in all six fields.
C10_SaveLoadRoundTrip ==
  \A p \in Callers :
    LET c == call[p]
    IN  (c.op = "getTokens" /\ Done(c) /\ ~HasEnvPair /\ c.startSaved # Null
           /\ c.startClock < c.startSaved.expiresAt) =>
          /\ c.tokens # Null
          /\ \A k \in Fields : c.tokens[k] = c.startSaved[k]

C10_Witness ==
  \E p \in Callers :
    /\ call[p].op = "getTokens"
    /\ Done(call[p])
    /\ ~HasEnvPair
    /\ call[p].startSaved # Null
    /\ call[p].startClock < call[p].startSaved.expiresAt
    /\ call[p].tokens = call[p].startSaved
    /\ call[p].tokens.tenantId # Undefined

\* C11: on a successful refresh the new record's accessToken is the provider's
\* access_token, and its refreshToken is the provider's refresh_token when the
\* response carries one and otherwise the refresh token sent in the request.
Accepted(resp) == resp.kind = "http" /\ resp.ok

C11_RefreshTokenRetained ==
  \A p \in Callers :
    LET c == call[p]
    IN  c.refreshed # Null =>
          /\ Accepted(c.rtResp)
          /\ c.refreshed.accessToken = c.rtResp.access_token
          /\ c.refreshed.refreshToken =
               (IF c.rtResp.refresh_token # Undefined THEN c.rtResp.refresh_token
                ELSE c.rtSent)

C11_Witness ==
  \E p \in Callers :
    /\ call[p].refreshed # Null
    /\ call[p].rtResp.refresh_token = Undefined
    /\ call[p].rtSent = "Q0"
    /\ call[p].refreshed.refreshToken = "Q0"
    /\ call[p].refreshed.accessToken = "A1"

\* C12: on a successful refresh the new record's expiresAt is the time of the
\* refresh + expires_in * 1000 - 300000 milliseconds, an absolute instant; for
\* expires_in = 3600 it is the time of the refresh + 3300000.
C12_ExpiresAtAbsolute ==
  \A p \in Callers :
    LET c == call[p]
    IN  c.refreshed # Null =>
          /\ c.refreshed.expiresAt = c.rtClock + c.rtResp.expires_in * 1000 - 300000
          /\ c.rtResp.expires_in = 3600 => c.refreshed.expiresAt = c.rtClock + 3300000
          /\ c.rtClock >= c.startClock

C12_Witness ==
  \E p \in Callers :
    /\ call[p].refreshed # Null
    /\ call[p].rtResp.expires_in = 3600
    /\ call[p].rtClock > T0
    /\ call[p].refreshed.expiresAt = call[p].rtClock + 3300000

\* C13: when the token endpoint answers a refresh with a non-success status or
\* the call throws, refreshToken() returns null without throwing, prints the
\* re-authentication prompt, and leaves the cached record and the canonical
\* file as they were.
Rejected(resp) == resp.kind = "throw" \/ (resp.kind = "http" /\ ~resp.ok)

C13_FailedRefreshChangesNothing ==
  [][\A p \in Callers :
       (tokenReq[p].stage = "answered" /\ Rejected(tokenReq[p].response)
          /\ tokenReq'[p].stage = "none") =>
         /\ call'[p].refreshed = Null
         /\ call'[p].pc = "gt_resume"
         /\ ~call'[p].threw
         /\ prompted'
         /\ currentTokens' = currentTokens
         /\ canonFile' = canonFile]_vars

C13_Witness ==
  \E p \in Callers :
    /\ call[p].pc = "gt_resume"
    /\ Rejected(call[p].rtResp)
    /\ call[p].refreshed = Null
    /\ prompted
    /\ currentTokens # Null
    /\ currentTokens.refreshToken = call[p].rtSent
    /\ IsRecordFile(canonFile)

\* C14: when the provider accepts a refresh but the desktop-configuration file
\* cannot be located, parsed or written, the refresh still succeeds:
\* refreshToken() returns the new record, the canonical file holds it, and no
\* re-authentication prompt is printed.
ConfigUpdateFails ==
  IF ~existsSync(claudeConfig) THEN TRUE
  ELSE IF ParseThrows(claudeConfig) THEN TRUE
  ELSE claudeConfig.server /\ ~disk.cfg

C14_ConfigFailureIsolated ==
  [][\A p \in Callers :
       (tokenReq[p].stage = "answered" /\ Accepted(tokenReq[p].response)
          /\ tokenReq'[p].stage = "none" /\ disk.canon /\ ConfigUpdateFails) =>
         /\ call'[p].refreshed = NewTokens(tokenReq[p], tokenReq[p].response, clock)
         /\ canonFile' = JsonText(call'[p].refreshed, 2)
         /\ currentTokens' = call'[p].refreshed
         /\ prompted' = prompted
         /\ claudeConfig' = claudeConfig
         /\ ~call'[p].threw]_vars

C14_Witness ==
  \E p \in Callers :
    /\ call[p].pc = "gt_resume"
    /\ call[p].refreshed # Null
    /\ canonFile = JsonText(call[p].refreshed, 2)
    /\ ~prompted
    /\ ~ParseThrows(claudeConfig) /\ claudeConfig.server /\ ~disk.cfg
    /\ call[p].cfgWrites = 0

\* C15: whatever the environment variables, the canonical file (absent, valid,
\* corrupt), the legacy file, the outcome of a file write and the outcome of
\* the exchange, getTokens() and refreshToken() complete by returning a record
\* or null and never raise an exception to their caller.
IsRecord(v) == {"accessToken", "refreshToken", "expiresAt"} \subseteq DOMAIN v

C15_TokenLayerNeverThrows ==
  \A p \in Callers :
    LET c == call[p]
    IN  c.op \in {"getTokens", "tool"} =>
          /\ ~c.threw
          /\ c.pc \in {"rt_fetch", "gt_resume", "mg_fetch1", "mg_fetch2", "done"}
          /\ c.pc = "gt_resume" => (c.refreshed = Null \/ IsRecord(c.refreshed))
          /\ (Done(c) /\ c.op = "getTokens") => (c.tokens = Null \/ IsRecord(c.tokens))

C15_Witness ==
  \E p \in Callers :
    /\ call[p].op = "getTokens"
    /\ Done(call[p])
    /\ LegacyOnly(call[p])
    /\ ~disk.canon
    /\ call[p].tokens = Null
    /\ ~call[p].threw

\* C16: a non-2xx response of the resource API whose body contains
\* "MailboxNotEnabledForRESTAPI" reaches the caller of makeGraphRequest as a
\* distinguished failure: what the caller receives differs from what it
\* receives for any other non-2xx response.
OtherFailures ==
  {r \in GraphResponses :
     r.kind = "http" /\ ~Ok(r.status) /\ r.body # "MailboxNotEnabledForRESTAPI"}

C16_MailboxDistinguished ==
  \A p \in Callers :
    LET c == call[p]
    IN  (Done(c) /\ c.op = "tool" /\ c.thrown = "personal-account") =>
          \A r \in OtherFailures : c.result # GraphResult(c.method, r)

\* C17: when no source yields a record (no environment pair, no parsable
\* canonical file, no parsable legacy file), getTokens() returns null,
\* getAccessToken() returns null, and a tool that needs the API returns the
\* authentication-failure text without any HTTP call to the resource API.
NoSourceAtStart(c) ==
  /\ ~HasEnvPair
  /\ ~IsRecordFile(c.startCanon)
  /\ ~IsRecordFile(c.startLegacy)

C17_UnauthenticatedNoHttp ==
  \A p \in Callers :
    LET c == call[p]
    IN  (c.op \in {"getTokens", "tool"} /\ NoSourceAtStart(c)) =>
          /\ Done(c)
          /\ c.tokens = Null
          /\ ~Truthy(getAccessToken(c.tokens))
          /\ c.httpCalls = 0 /\ c.sent1 = NoFetch /\ c.tokenReqs = 0
          /\ c.op = "tool" => (c.text = "authfail" /\ c.token = Undefined)

C17_Witness ==
  \E p \in Callers :
    /\ call[p].op = "tool"
    /\ Done(call[p])
    /\ NoSourceAtStart(call[p])
    /\ call[p].startCanon = Corrupt
    /\ call[p].startLegacy = Corrupt
    /\ call[p].text = "authfail"
    /\ call[p].httpCalls = 0

\* C18: when the first response is 401, the token manager then returns a
\* different non-null token and the retry is answered with a 2xx status,
\* makeGraphRequest returns the retry's parsed body (the empty success marker
\* for DELETE), and the retry has the URL, method and body of the first call
\* with only the bearer token replaced.
C18_RetrySameRequestNewToken ==
  \A p \in Callers :
    LET c == call[p]
    IN  (Done(c) /\ c.httpCalls = 2 /\ Ok(c.status2)) =>
          /\ c.status1 = Unauthorized
          /\ c.sent1.auth = c.token
          /\ c.sent2 = [c.sent1 EXCEPT !.auth = c.newToken]
          /\ c.sent2.auth # c.sent1.auth
          /\ IF c.method = "DELETE" THEN c.result = "empty"
             ELSE c.result = "data" \/ (c.thrown = "not-json" /\ c.result = "null")

C18_Witness ==
  \E p \in Callers :
    /\ Done(call[p])
    /\ call[p].httpCalls = 2
    /\ call[p].status1 = Unauthorized
    /\ call[p].status2 = 200
    /\ call[p].method = "POST"
    /\ call[p].sent1.body /\ call[p].sent2.body
    /\ call[p].result = "data"
    /\ call[p].sent2.auth = "A1"

\* C19: there is no single-flight guard.  A getTokens() caller that finds the
\* canonical record expired while another caller's refresh request is still
\* in flight sends its own request, with the refresh token of the file; so two
\* callers that observe the same expired record can have two requests with
\* the same refresh token in flight at once.
CredentialsAtStart(c) ==
  LET rec == JSONparse(c.startCanon)
  IN  Truthy(Or(rec.clientId, env.CLIENT_ID)) /\ Truthy(Or(rec.clientSecret, env.CLIENT_SECRET))

C19_NoSingleFlight ==
  \A p \in Callers :
    LET c == call[p]
    IN  (c.op = "getTokens" /\ c.startInFlight /\ ExpiredAtStart(c)
           /\ CredentialsAtStart(c)) =>
          /\ c.tokenReqs = 1
          /\ c.rtSent = c.startCanon.members["refreshToken"]
          /\ c.pc = "rt_fetch" => tokenReq[p].refresh_token = c.rtSent

C19_Witness ==
  \E p, q \in Callers :
    /\ p # q
    /\ call[p].op = "getTokens" /\ call[q].op = "getTokens"
    /\ call[p].startCanon = call[q].startCanon
    /\ ExpiredAtStart(call[p])
    /\ tokenReq[p].stage = "sent" /\ tokenReq[q].stage = "sent"
    /\ tokenReq[p].refresh_token = tokenReq[q].refresh_token

\* C20: a delete tool returns its "successfully deleted" text only when the
\* DELETE request was answered with a success status; when the request fails
\* (non-2xx status, network error) the tool returns failure text instead.
C20_DeleteTextOnlyOnSuccess ==
  \A p \in Callers :
    LET c == call[p]
    IN  (Done(c) /\ c.op = "tool" /\ c.method = "DELETE" /\ c.httpCalls > 0) =>
          /\ c.text = "deleted" => c.result = "empty"
          /\ c.result = "null" => c.text = "failed"

\* C21, as stated: after refreshToken() returns a non-null record, that record
\* is Valid: the time of the refresh is strictly before its expiresAt, for
\* every lifetime expires_in the provider reports.
C21_RefreshedRecordAlwaysValid ==
  \A p \in Callers :
    LET c == call[p]
    IN  c.refreshed # Null => c.rtClock < c.refreshed.expiresAt

\* C21, amended: the record is Valid at the time of the refresh exactly when
\* the reported lifetime exceeds the 5-minute margin (expires_in > 300); with
\* a lifetime of 300 seconds or less its expiresAt is not after that time.
C21_RefreshedRecordValid ==
  \A p \in Callers :
    LET c == call[p]
    IN  c.refreshed # Null =>
          (c.rtClock < c.refreshed.expiresAt <=> c.rtResp.expires_in > 300)

C21_Witness ==
  \E p \in Callers :
    /\ call[p].refreshed # Null
    /\ call[p].rtResp.expires_in = 3600
    /\ call[p].rtClock < call[p].refreshed.expiresAt
    /\ call[p].tokens = call[p].refreshed

\* C22: once the canonical file yields a record, getTokens() does not consult
\* the legacy file in that call, even when the record is expired and cannot be
\* refreshed; the legacy file is read only when the canonical file is absent or
\* yields no record.
C22_NoFallThroughToLegacy ==
  \A p \in Callers :
    LET c == call[p]
    IN  (c.op \in {"getTokens", "tool"} /\ ~HasEnvPair) =>
          /\ IsRecordFile(c.startCanon) => (c.legacyReads = 0 /\ c.src = "canon")
          /\ c.legacyReads > 0 => ~IsRecordFile(c.startCanon)
          /\ (IsRecordFile(c.startCanon) /\ Done(c) /\ c.op = "getTokens") => c.tokens # Null

C22_Witness ==
  \E p \in Callers :
    /\ call[p].op = "getTokens"
    /\ Done(call[p])
    /\ ExpiredAtStart(call[p])
    /\ call[p].rtFailed
    /\ IsRecordFile(legacyFile)
    /\ call[p].legacyReads = 0
    /\ call[p].tokens # Null
    /\ call[p].tokens.accessToken = "S0"

\* C23, as stated: a persisted record that lacks clientId or clientSecret is
\* never exchanged at the token endpoint, whatever CLIENT_ID and CLIENT_SECRET
\* hold in the environment.
RecordLacksCredentials(c) ==
  /\ ~HasEnvPair
  /\ IsRecordFile(c.startCanon)
  /\ ~Truthy(JSONparse(c.startCanon).clientId) \/ ~Truthy(JSONparse(c.startCanon).clientSecret)

C23_NeverExchangedWithoutOwnCredentials ==
  \A p \in Callers :
    LET c == call[p]
    IN  (c.op = "getTokens" /\ RecordLacksCredentials(c)) => c.tokenReqs = 0

\* C23, amended: such a record is exchanged only with the values the
\* environment supplies for the ones it lacks: when CLIENT_ID / CLIENT_SECRET
\* do not supply a missing value no refresh request is sent, and when they do,
\* an expired record is exchanged with the environment's values.
C23_ExchangedOnlyWithEnvCredentials ==
  \A p \in Callers :
    LET c == call[p]
    IN  (c.op = "getTokens" /\ RecordLacksCredentials(c)) =>
          /\ ~CredentialsAtStart(c) => c.tokenReqs = 0
          /\ (CredentialsAtStart(c) /\ ExpiredAtStart(c)) => c.tokenReqs = 1
          /\ c.pc = "rt_fetch" =>
               /\ tokenReq[p].client_id = Or(JSONparse(c.startCanon).clientId, env.CLIENT_ID)
               /\ tokenReq[p].client_secret =
                    Or(JSONparse(c.startCanon).clientSecret, env.CLIENT_SECRET)
               /\ Truthy(tokenReq[p].client_id) /\ Truthy(tokenReq[p].client_secret)

C23_Witness ==
  \E p \in Callers :
    /\ call[p].op = "getTokens"
    /\ RecordLacksCredentials(call[p])
    /\ call[p].pc = "rt_fetch"
    /\ tokenReq[p].client_id = "env-id"
    /\ tokenReq[p].client_secret = "env-secret"

\* C24: with the environment pair as the source, once its assumed 1-hour
\* lifetime has elapsed in the running process, a getTokens() call treats the
\* pair as expired and attempts a refresh.
C24_EnvPairExpiresAfterAnHour ==
  \A p \in Callers :
    LET c == call[p]
    IN  (c.op = "getTokens" /\ HasEnvPair /\ c.startClock > T0 + EnvLifetimeMs) =>
          c.rtCalls >= 1

\* C25, as stated: a record found only at the legacy path is returned by that
\* getTokens() call without an expiry check and without a refresh attempt, even
\* when its expiresAt is in the past; on the following getTokens() call the
\* migrated canonical copy is expiry-checked and refreshed if expired.
MigratedCopyAtStart(c) ==
  /\ ~HasEnvPair
  /\ IsRecordFile(c.startCanon)
  /\ IsRecordFile(c.startLegacy)
  /\ c.startCanon.members = c.startLegacy.members

C25_LegacyAlwaysReturnedUnchecked ==
  \A p \in Callers :
    LET c == call[p]
    IN  /\ (c.op = "getTokens" /\ LegacyOnly(c)) =>
             /\ Done(c)
             /\ SameFields(c.tokens, c.startLegacy)
             /\ c.rtCalls = 0 /\ c.tokenReqs = 0
        /\ (c.op = "getTokens" /\ MigratedCopyAtStart(c)) =>
             (c.rtCalls = 1 <=> c.startClock > c.startCanon.members["expiresAt"])

\* C25, amended: the same, provided the canonical file can be written; when
\* the migration write fails the call returns null, still with no expiry check
\* and no refresh attempt.
C25_LegacyReturnedUnchecked ==
  \A p \in Callers :
    LET c == call[p]
    IN  /\ (c.op = "getTokens" /\ LegacyOnly(c)) =>
             /\ Done(c)
             /\ IF disk.canon THEN SameFields(c.tokens, c.startLegacy) ELSE c.tokens = Null
             /\ c.rtCalls = 0 /\ c.tokenReqs = 0
        /\ (c.op = "getTokens" /\ MigratedCopyAtStart(c)) =>
             /\ c.rtCalls = 1 <=> c.startClock > c.startCanon.members["expiresAt"]
             /\ c.legacyReads = 0 /\ c.canonReads = 1

C25_Witness ==
  \E p \in Callers :
    /\ call[p].op = "getTokens"
    /\ MigratedCopyAtStart(call[p])
    /\ call[p].prev.has
    /\ call[p].prev.access = "L0"
    /\ call[p].prev.tokenReqs = 0
    /\ call[p].startClock > call[p].startCanon.members["expiresAt"]
    /\ call[p].rtCalls = 1

\* C26: a canonical record is treated as Expired, and a refresh is attempted,
\* exactly when now >= expiresAt; at now = expiresAt getTokens() attempts a
\* refresh and does not return the record as valid.
C26_ExpiredAtExpiresAt ==
  \A p \in Callers :
    LET c == call[p]
    IN  (c.op = "getTokens" /\ ~HasEnvPair /\ IsRecordFile(c.startCanon)) =>
          (c.rtCalls >= 1 <=> c.startClock >= c.startCanon.members["expiresAt"])

\* C27: a canonical file that exists but cannot be parsed is treated as an
\* absent record: getTokens() does not throw, does not itself modify or delete
\* the file (only a migration of a legacy record writes it), and proceeds to
\* the legacy file, returning null when that has no parsable record either.
CorruptAtStart(c) == ~HasEnvPair /\ c.startCanon = Corrupt

C27_CorruptCanonicalIsAbsent ==
  \A p \in Callers :
    LET c == call[p]
    IN  (c.op = "getTokens" /\ CorruptAtStart(c)) =>
          /\ Done(c) /\ ~c.threw
          /\ c.canonReads = 1 /\ c.rtCalls = 0
          /\ existsSync(c.startLegacy) => c.legacyReads = 1
          /\ ~IsRecordFile(c.startLegacy) => (c.tokens = Null /\ c.endCanon = Corrupt)
          /\ (IsRecordFile(c.startLegacy) /\ disk.canon) =>
               (SameFields(c.tokens, c.startLegacy)
                  /\ c.endCanon = JSONstringify(JSONparse(c.startLegacy)))
          /\ (IsRecordFile(c.startLegacy) /\ ~disk.canon) =>
               (c.tokens = Null /\ c.endCanon = Corrupt)

C27_Witness ==
  \E p \in Callers :
    /\ call[p].op = "getTokens"
    /\ Done(call[p])
    /\ CorruptAtStart(call[p])
    /\ call[p].startLegacy = Corrupt
    /\ call[p].legacyReads = 1
    /\ call[p].tokens = Null
    /\ canonFile = Corrupt

\* C28: when a refresh is requested and no client id or no client secret is
\* available from the cached record or the environment, refreshToken() returns
\* null having sent no request, shown no re-authentication prompt and changed
\* neither the cache nor the canonical file; when both are available, the
\* cached record's values take precedence over the environment's.
CredentialsMissing(tokens) ==
  \/ ~Truthy(Or(tokens.clientId, env.CLIENT_ID))
  \/ ~Truthy(Or(tokens.clientSecret, env.CLIENT_SECRET))

C28_MissingCredentialsNoRequest ==
  [][\A p \in Callers :
       /\ (call'[p].rtCalls = 1 /\ call'[p].pc # call[p].pc
             /\ call'[p].pc \in {"gt_resume", "rt_fetch"} /\ tokenReq[p].stage = "none") =>
            /\ currentTokens' = JSONparse(canonFile)
            /\ canonFile' = canonFile
            /\ IF CredentialsMissing(currentTokens')
               THEN /\ call'[p].pc = "gt_resume"
                    /\ call'[p].refreshed = Null
                    /\ call'[p].tokenReqs = 0
                    /\ tokenReq'[p] = NoReq
                    /\ prompted' = prompted
                    /\ ~call'[p].threw
               ELSE /\ call'[p].pc = "rt_fetch"
                    /\ tokenReq'[p].client_id =
                         (IF currentTokens'.clientId # Undefined
                          THEN currentTokens'.clientId ELSE env.CLIENT_ID)
                    /\ tokenReq'[p].client_secret =
                         (IF currentTokens'.clientSecret # Undefined
                          THEN currentTokens'.clientSecret ELSE env.CLIENT_SECRET)]_vars

C28_Witness ==
  \E p \in Callers :
    /\ call[p].pc = "gt_resume"
    /\ call[p].rtCalls = 1
    /\ call[p].tokenReqs = 0
    /\ call[p].rtFailed
    /\ ~prompted
    /\ currentTokens # Null
    /\ CredentialsMissing(currentTokens)
    /\ canonFile = call[p].startCanon

\* C29: after any sequence of getTokens, refreshToken, saveTokens and
\* storeCredentials calls, calls in which the file write fails included,
\* whenever the cached record is non-null and no call is in progress it equals
\* the record stored in the canonical file.  (Stated for the states in which
\* the file was last written by this process.)
C29_CacheEqualsFile ==
  (/\ currentTokens # Null
   /\ authWrote = Null
   /\ \A p \in Callers : call[p].pc \in {"idle", "done"}) =>
    /\ IsRecordFile(canonFile)
    /\ currentTokens = JSONparse(canonFile)

\* C30, as stated: when two concurrent refreshes both succeed at the provider,
\* the record left in the canonical file and in the cache after both complete
\* carries the refresh token the provider issued last, in whatever order the
\* two responses arrive.
BothRefreshed ==
  /\ \A p \in Callers : call[p].op = "getTokens" /\ call[p].refreshed # Null
                         /\ call[p].rtResp.refresh_token # Undefined
  /\ \E p \in Callers : call[p].startInFlight
  /\ authWrote = Null

C30_LastIssuedSurvives ==
  BothRefreshed =>
    /\ JSONparse(canonFile).refreshToken = lastIssued
    /\ currentTokens.refreshToken = lastIssued

\* C30, amended: the record left in the file and in the cache is the one built
\* from the response that is handled last: each accepted response overwrites
\* both with its own refresh token (or the one it sent), so the provider's last
\* issued refresh token is left only when its response is handled last.
C30_LastHandledWins ==
  [][\A p \in Callers :
       (tokenReq[p].stage = "answered" /\ Accepted(tokenReq[p].response)
          /\ tokenReq'[p].stage = "none" /\ disk.canon) =>
         LET resp == tokenReq[p].response
             rt == IF resp.refresh_token # Undefined THEN resp.refresh_token
                   ELSE tokenReq[p].refresh_token
         IN  /\ IsRecordFile(canonFile')
             /\ JSONparse(canonFile').refreshToken = rt
             /\ currentTokens' # Null
             /\ currentTokens'.refreshToken = rt
             /\ (resp.refresh_token # Undefined /\ resp.refresh_token # lastIssued) =>
                  (JSONparse(canonFile').refreshToken # lastIssued
                     /\ currentTokens'.refreshToken # lastIssued)]_vars

C30_Witness ==
  /\ BothRefreshed
  /\ lastIssued = "R2"
  /\ JSONparse(canonFile).refreshToken = "R1"
  /\ currentTokens.refreshToken = "R1"

(***************************************************************************)
(* C31  Migration is additive: no step of getTokens() or saveTokens(), in  *)
(* any sequence of calls, writes, truncates or deletes the legacy file in  *)
(* the working directory.                                                  *)
(***************************************************************************)
C31_LegacyFileUntouched == [][legacyFile' = legacyFile]_vars

\* A call has migrated the legacy record, and the legacy file is as it was.
C31_Witness ==
  \E p \in Callers :
    /\ Done(call[p])
    /\ call[p].op = "getTokens"
    /\ LegacyOnly(call[p])
    /\ Migrated(call[p])
    /\ call[p].canonWrites = 1
    /\ legacyFile = call[p].startLegacy

(***************************************************************************)
(* C32  move-task leaves the task in the source list whenever it did not   *)
(* create the copy: the DELETE of the original is issued only after the    *)
(* POST that creates the task in the target list succeeded, and a task     *)
(* with hasAttachments = true causes no POST and no DELETE at all.         *)
(***************************************************************************)
MoveTaskCalls == {p \in Callers : call[p].op = "move-task"}

C32_DeleteOnlyAfterCopy ==
  \A p \in MoveTaskCalls :
    LET t == call[p].tool
    IN  /\ t.deletes > 0 => t.newTask /\ t.copyCreated
        /\ ~t.copyCreated => ~t.deleted
        /\ (t.step # "get" /\ t.hasAttachments) => t.posts = 0 /\ t.deletes = 0
        /\ (Done(call[p]) /\ call[p].text = "has-attachments")
             => t.posts = 0 /\ t.deletes = 0 /\ call[p].method = "GET"

\* A move that went through: the copy was created, then the original deleted.
C32_Witness ==
  \E p \in MoveTaskCalls :
    /\ Done(call[p])
    /\ call[p].text = "moved"
    /\ call[p].tool.copyCreated
    /\ call[p].tool.deletes = 1
    /\ call[p].tool.deleted

(***************************************************************************)
(* C33  move-task preserves checklist items: whenever it deletes the       *)
(* original task, every checklist item the original had has been created   *)
(* on the new task, and the reported "Checklist items moved" count equals  *)
(* the number of items actually created on the new task.                   *)
(***************************************************************************)
C33_ChecklistPreserved ==
  \A p \in MoveTaskCalls :
    LET t == call[p].tool
    IN  (Done(call[p]) /\ call[p].text = "moved")
          => /\ t.deleted => t.itemsCreated = t.origItems
             /\ t.reportedItems = t.itemsCreated

(***************************************************************************)
(* C34  archive-completed-tasks never deletes a task from the source list  *)
(* unless the POST creating its copy in the target list succeeded first;   *)
(* a task whose copy failed is listed as failed and stays in the source    *)
(* list.                                                                   *)
(***************************************************************************)
ArchiveCalls == {p \in Callers : call[p].op = "archive-completed-tasks"}

\* The loop has the answer to the POST for task k.
CopyAnswered(c, k) ==
  \/ k < c.tool.i
  \/ k = c.tool.i /\ (c.tool.step = "remove" \/ Done(c))

C34_DeleteOnlyAfterCopy ==
  \A p \in ArchiveCalls : \A k \in 1..MaxTasks :
    LET t == call[p].tool
    IN  /\ t.deleteSent[k] => t.createResponse[k] /\ t.copied[k]
        /\ t.removed[k] => t.deleteSent[k]
        /\ t.failedTasks[k] => ~t.deleteSent[k] /\ ~t.removed[k]
        /\ CopyAnswered(call[p], k) => (t.failedTasks[k] <=> ~t.createResponse[k])
        /\ t.deletes <= t.posts

\* Two tasks: the copy of the first failed, the second was copied and removed.
C34_Witness ==
  \E p \in ArchiveCalls :
    LET t == call[p].tool
    IN  /\ Done(call[p])
        /\ call[p].text = "archived"
        /\ t.tasks = 2
        /\ t.failedTasks[1] /\ ~t.deleteSent[1]
        /\ t.copied[2] /\ t.removed[2]

(***************************************************************************)
(* C35  Every task that archive-completed-tasks counts in "Successfully    *)
(* archived N" has been moved: its copy exists in the target list and it   *)
(* has been deleted from the source list, so a counted task is never       *)
(* present in both lists afterwards.                                       *)
(***************************************************************************)
C35_CountedTasksMoved ==
  \A p \in ArchiveCalls : \A k \in 1..MaxTasks :
    LET t == call[p].tool
    IN  (Done(call[p]) /\ t.counted[k]) => t.copied[k] /\ t.removed[k]

(***************************************************************************)
(* C36  With dryRun = true, archive-completed-tasks issues only the GET    *)
(* that lists completed tasks and no POST or DELETE, so neither list is    *)
(* modified.                                                               *)
(***************************************************************************)
C36_DryRunOnlyLists ==
  \A p \in ArchiveCalls :
    LET c == call[p]
    IN  c.tool.dryRun
          => /\ c.tool.posts = 0 /\ c.tool.deletes = 0
             /\ c.tool.step = "list"
             /\ c.method = "GET"
             /\ c.sent1.sent => c.sent1.method = "GET"
             /\ c.sent2.sent => c.sent2.method = "GET"
             /\ \A k \in 1..MaxTasks : ~c.tool.copied[k] /\ ~c.tool.removed[k]

\* A dry run that found two tasks to archive and returned the preview.
C36_Witness ==
  \E p \in ArchiveCalls :
    /\ Done(call[p])
    /\ call[p].tool.dryRun
    /\ call[p].tool.tasks = 2
    /\ call[p].text = "preview"
    /\ call[p].httpCalls >= 1

Pending(c) == c.pc \notin {"idle", "done"}

RequestBounds ==
  \A p \in Callers :
    LET c == call[p]
    IN  /\ c.op = "getTokens" => c.gtCalls <= 1 /\ c.tokenReqs <= 1 /\ c.httpCalls = 0
        /\ c.op = "tool"
             => /\ c.httpCalls <= 2
                /\ c.gtCalls <= 2
                /\ c.tokenReqs <= c.gtCalls
                /\ c.ctx = "tool" => c.gtCalls <= 1 /\ c.tokenReqs <= 1
                /\ c.ctx = "retry" => c.reqsAt401 <= 1 /\ c.tokenReqs <= c.reqsAt401 + 1

C38_CallsReturn ==
  /\ []RequestBounds
  /\ \A p \in Callers : Pending(call[p]) ~> Done(call[p])

\* A makeGraphRequest call has returned after two resource requests and the
\* token request of the getTokens call it triggered.
C38_Witness ==
  \E p \in Callers :
    /\ Done(call[p])
    /\ call[p].op = "tool"
    /\ call[p].httpCalls = 2
    /\ call[p].gtCalls = 2
    /\ call[p].tokenReqs = 1
    /\ call[p].reqsAt401 = 0
====
